---- MODULE Spec2Model ----
(***************************************************************************)
(* Ticket booking system of src/hhh.py: the Ticket hierarchy and its       *)
(* pricing, the Order aggregate with its confirm/cancel state machine, and *)
(* the BookingSystem repository with its pickle snapshots.                 *)
(*                                                                         *)
(* Python objects are modelled as heap entries: theap, oheap and uheap are *)
(* sequences of records, and a reference is an index into them, so that    *)
(* two references to one object observe each other's mutations.            *)
(* Money is kept in integers: base prices are multiples of 10, which makes *)
(* base * 1.2, base * 0.9, base * 0.8 and base * 0.7 exact.                *)
(* Fields that no modelled operation reads (venue_section, season_year,    *)
(* race_dates, created_by, password, email, phone_number, department) are  *)
(* left out of the records.                                                *)
(***************************************************************************)
EXTENDS Integers, Sequences, FiniteSets, TLC

VARIABLES
    today,      \* date.today(), as a day number
    theap,      \* the Ticket objects of the process
    oheap,      \* the Order objects of the process
    uheap,      \* the User and Admin objects of the process
    users,      \* BookingSystem.__users: username -> User object
    admins,     \* BookingSystem.__admins: username -> Admin object
    tickets,    \* BookingSystem.__tickets: ticket id -> Ticket object
    orders,     \* BookingSystem.__orders: order id -> Order object
    disk,       \* the four pickle files of the data directory
    up,         \* a BookingSystem has been constructed in a running process
    ret         \* what the last call returned or raised

repoVars == <<uheap, users, admins, tickets, orders, disk, up>>

vars == <<today, theap, oheap, uheap, users, admins, tickets, orders, disk, up, ret>>

\* ---------------------------------------------------------------- bounds
MaxTObj == 2
MaxLen == 2
MaxDay == 2
MaxOrders == 2

\* ----------------------------------------------------------------- enums
RaceCategory == {"Premium", "Standard", "Economy"}

OrderStatus == {"Pending", "Confirmed", "Cancelled"}

PaymentMethod == {"Credit Card", "Debit Card", "Digital Wallet"}

None == "None"

\* what a call leaves in ret
RetNone == "None"
RetTrue == "True"
RetFalse == "False"
ValueError == "ValueError"

\* ------------------------------------------------------- inputs (bounded)
TicketIds == {"TKT-001", "TKT-002"}

CtorPrices == {100, 200}

SetPrices == {-100, 100, 200}

EventDays == {1, 2}

FiveRaces == <<"Monaco", "Silverstone", "Monza", "Singapore", "Abu Dhabi">>

Totals == {-10, 0}

CtorTotals == {0, 500}

PaymentInputs == {None, "Credit Card"}

Usernames == {"admin", "john_doe"}

\* race_category arguments: the members of RaceCategory and another value
Categories == RaceCategory \cup {"VIP"}

\* price arguments of the ticket constructors and of Admin.create_ticket
TicketPrices == {-100, 100}

\* ticket_type arguments of Admin.create_ticket
TicketTypes == {"SingleRace", "Season", "Group"}

\* race_name arguments of Admin.create_ticket
RaceNames == {"", "Monaco"}

\* lengths of the included_races arguments
RaceCounts == {4, 5, 9, 10, 14, 15}

\* a list of n race names
RaceList(n) == [i \in 1..n |-> FiveRaces[((i - 1) % 5) + 1]]

\* ----------------------------------------------------------------- tickets
\* Ticket.__init__ followed by SingleRaceTicket.__init__; created_by is a
\* reference to an Admin object, 0 for None
SingleRaceTicket(ticket_id, price, event_date, race_name, race_category) ==
    [kind |-> "SingleRace", ticket_id |-> ticket_id, price |-> price,
     event_date |-> event_date, is_used |-> FALSE, created_by |-> 0,
     race_name |-> race_name, race_category |-> race_category,
     included_races |-> <<>>]

\* Ticket.__init__ followed by SeasonTicket.__init__
SeasonTicket(ticket_id, price, event_date, included_races) ==
    [kind |-> "Season", ticket_id |-> ticket_id, price |-> price,
     event_date |-> event_date, is_used |-> FALSE, created_by |-> 0,
     race_name |-> None, race_category |-> None,
     included_races |-> included_races]

\* SeasonTicket.calculate_price with the tiers starting above 15, 10 and 5
Season_calculate_price_exclusive(t) ==
    LET num_races == Len(t.included_races) IN
    IF num_races > 15 THEN (t.price * 7) \div 10
    ELSE IF num_races > 10 THEN (t.price * 8) \div 10
    ELSE IF num_races > 5 THEN (t.price * 9) \div 10
    ELSE t.price

\* SingleRaceTicket.calculate_price without the Economy discount
SingleRace_calculate_price_flat(t) ==
    IF t.race_category = "Premium" THEN (t.price * 12) \div 10
    ELSE t.price

\* SingleRaceTicket.calculate_price: the else branch takes every category
\* that is neither PREMIUM nor STANDARD
SingleRace_calculate_price(t) ==
    IF t.race_category = "Premium" THEN (t.price * 12) \div 10
    ELSE IF t.race_category = "Standard" THEN t.price
    ELSE (t.price * 9) \div 10

\* SeasonTicket.calculate_price
Season_calculate_price(t) ==
    LET num_races == Len(t.included_races) IN
    IF num_races >= 15 THEN (t.price * 7) \div 10
    ELSE IF num_races >= 10 THEN (t.price * 8) \div 10
    ELSE IF num_races >= 5 THEN (t.price * 9) \div 10
    ELSE t.price

\* ticket.calculate_price(), dispatched on the object's class
calculate_price(t) ==
    IF t.kind = "SingleRace" THEN SingleRace_calculate_price(t)
    ELSE Season_calculate_price(t)

\* ------------------------------------------------------------------ orders
\* f"ORD-{n}"
OrderId(n) == <<"ORD", n>>

\* Order.__init__
Order(order_id, order_date, status, total_amount, payment_method) ==
    [order_id |-> order_id, order_date |-> order_date, status |-> status,
     total_amount |-> total_amount, payment_method |-> payment_method,
     tickets |-> <<>>, user_id |-> None]

RECURSIVE SumPrices(_, _)
\* sum(ticket.calculate_price() for ticket in refs), over the heap th
SumPrices(refs, th) ==
    IF refs = <<>> THEN 0
    ELSE calculate_price(th[Head(refs)]) + SumPrices(Tail(refs), th)

\* Order.calculate_total of order object o, in heaps oh and th
calculate_total(o, oh, th) == SumPrices(oh[o].tickets, th)

TRefs == DOMAIN theap

ORefs == DOMAIN oheap

\* ------------------------------------------------------- ticket operations
\* SingleRaceTicket(...) called by a client
SingleRaceTicket_init(ticket_id, price, event_date, race_category) ==
    /\ Len(theap) < MaxTObj
    /\ theap' = Append(theap,
          SingleRaceTicket(ticket_id, price, event_date, "Monaco", race_category))
    /\ ret' = RetNone
    /\ UNCHANGED <<today, oheap, repoVars>>

\* SeasonTicket(...) called by a client
SeasonTicket_init(ticket_id, price, event_date, included_races) ==
    /\ Len(theap) < MaxTObj
    /\ theap' = Append(theap,
          SeasonTicket(ticket_id, price, event_date, included_races))
    /\ ret' = RetNone
    /\ UNCHANGED <<today, oheap, repoVars>>

\* Admin.create_ticket called on the Admin object a
create_ticket(a, ticket_type, ticket_id, price, event_date, race_name, race_category, included_races) ==
    /\ a \in DOMAIN uheap
    /\ uheap[a].class = "Admin"
    /\ Len(theap) < MaxTObj
    /\ IF \/ ticket_type = "SingleRace" /\ race_name = ""
          \/ ticket_type \notin {"SingleRace", "Season"}
       THEN ret' = ValueError /\ UNCHANGED theap
       ELSE /\ theap' = Append(theap,
                   [(IF ticket_type = "SingleRace"
                     THEN SingleRaceTicket(ticket_id, price, event_date,
                                           race_name, race_category)
                     ELSE SeasonTicket(ticket_id, price, event_date,
                                       included_races))
                    EXCEPT !.created_by = a])
            /\ ret' = "Ticket"
    /\ UNCHANGED <<today, oheap, repoVars>>

\* ticket.calculate_price() called by a client; the float returned is shown
\* as its decimal numeral
Ticket_calculate_price(t) ==
    /\ t \in TRefs
    /\ ret' = ToString(calculate_price(theap[t]))
    /\ UNCHANGED <<today, theap, oheap, repoVars>>

\* Ticket.set_price
set_price(t, price) ==
    /\ t \in TRefs
    /\ IF price < 0
       THEN ret' = ValueError /\ UNCHANGED theap
       ELSE ret' = RetNone /\ theap' = [theap EXCEPT ![t].price = price]
    /\ UNCHANGED <<today, oheap, repoVars>>

\* Ticket.set_used
set_used(t, is_used) ==
    /\ t \in TRefs
    /\ theap' = [theap EXCEPT ![t].is_used = is_used]
    /\ ret' = RetNone
    /\ UNCHANGED <<today, oheap, repoVars>>

\* SingleRaceTicket.set_race_category
set_race_category(t, race_category) ==
    /\ t \in TRefs
    /\ theap[t].kind = "SingleRace"
    /\ theap' = [theap EXCEPT ![t].race_category = race_category]
    /\ ret' = RetNone
    /\ UNCHANGED <<today, oheap, repoVars>>

\* SeasonTicket.set_included_races
set_included_races(t, included_races) ==
    /\ t \in TRefs
    /\ theap[t].kind = "Season"
    /\ theap' = [theap EXCEPT ![t].included_races = included_races]
    /\ ret' = RetNone
    /\ UNCHANGED <<today, oheap, repoVars>>

\* -------------------------------------------------------- order operations
\* Order(order_id, date.today()) called by a client
Order_init(order_id) ==
    /\ Len(oheap) < MaxOrders
    /\ oheap' = Append(oheap, Order(order_id, today, "Pending", 0, None))
    /\ ret' = RetNone
    /\ UNCHANGED <<today, theap, repoVars>>

\* Order.set_total_amount
set_total_amount(o, total_amount) ==
    /\ o \in ORefs
    /\ IF total_amount < 0
       THEN ret' = ValueError /\ UNCHANGED oheap
       ELSE ret' = RetNone
            /\ oheap' = [oheap EXCEPT ![o].total_amount = total_amount]
    /\ UNCHANGED <<today, theap, repoVars>>

\* Order.set_payment_method
set_payment_method(o, payment_method) ==
    /\ o \in ORefs
    /\ oheap' = [oheap EXCEPT ![o].payment_method = payment_method]
    /\ ret' = RetNone
    /\ UNCHANGED <<today, theap, repoVars>>

\* add_ticket without the recomputation of the total
add_ticket_stale(o, t) ==
    /\ o \in ORefs
    /\ t \in TRefs
    /\ IF oheap[o].status = "Confirmed"
       THEN ret' = ValueError /\ UNCHANGED oheap
       ELSE /\ Len(oheap[o].tickets) < MaxLen
            /\ oheap' = [oheap EXCEPT ![o].tickets = Append(@, t)]
            /\ ret' = RetNone
    /\ UNCHANGED <<today, theap, repoVars>>

\* add_ticket without the check of the status
add_ticket_unguarded(o, t) ==
    /\ o \in ORefs
    /\ t \in TRefs
    /\ Len(oheap[o].tickets) < MaxLen
    /\ LET appended == [oheap EXCEPT ![o].tickets = Append(@, t)] IN
       oheap' = [appended EXCEPT
                   ![o].total_amount = calculate_total(o, appended, theap)]
    /\ ret' = RetNone
    /\ UNCHANGED <<today, theap, repoVars>>

\* Order.add_ticket
add_ticket(o, t) ==
    /\ o \in ORefs
    /\ t \in TRefs
    /\ IF oheap[o].status = "Confirmed"
       THEN ret' = ValueError /\ UNCHANGED oheap
       ELSE /\ Len(oheap[o].tickets) < MaxLen
            /\ LET appended == [oheap EXCEPT ![o].tickets = Append(@, t)] IN
               oheap' = [appended EXCEPT
                           ![o].total_amount = calculate_total(o, appended, theap)]
            /\ ret' = RetNone
    /\ UNCHANGED <<today, theap, repoVars>>

\* the index i of the first ticket of refs whose id is ticket_id, 0 if none
FirstMatch(refs, ticket_id) ==
    LET hits == {i \in DOMAIN refs : theap[refs[i]].ticket_id = ticket_id} IN
    IF hits = {} THEN 0 ELSE CHOOSE i \in hits : \A j \in hits : i <= j

\* list.pop(i)
Pop(s, i) == [j \in 1..(Len(s) - 1) |-> IF j < i THEN s[j] ELSE s[j + 1]]

\* remove_ticket popping the last ticket with the id instead of the first
remove_ticket_last(o, ticket_id) ==
    /\ o \in ORefs
    /\ LET tks == oheap[o].tickets
           hits == {j \in DOMAIN tks : theap[tks[j]].ticket_id = ticket_id}
           i == IF hits = {} THEN 0 ELSE CHOOSE j \in hits : \A k \in hits : k <= j
       IN
       IF oheap[o].status = "Confirmed" \/ i = 0
       THEN ret' = RetFalse /\ UNCHANGED oheap
       ELSE /\ LET popped == [oheap EXCEPT ![o].tickets = Pop(@, i)] IN
               oheap' = [popped EXCEPT
                           ![o].total_amount = calculate_total(o, popped, theap)]
            /\ ret' = RetTrue
    /\ UNCHANGED <<today, theap, repoVars>>

\* remove_ticket without the recomputation of the total
remove_ticket_stale(o, ticket_id) ==
    /\ o \in ORefs
    /\ LET i == FirstMatch(oheap[o].tickets, ticket_id) IN
       IF oheap[o].status = "Confirmed" \/ i = 0
       THEN ret' = RetFalse /\ UNCHANGED oheap
       ELSE /\ oheap' = [oheap EXCEPT ![o].tickets = Pop(@, i)]
            /\ ret' = RetTrue
    /\ UNCHANGED <<today, theap, repoVars>>

\* Order.remove_ticket
\* remove_ticket without the Confirmed check of lines 344-345.
remove_ticket_unguarded(o, ticket_id) ==
    /\ o \in ORefs
    /\ LET i == FirstMatch(oheap[o].tickets, ticket_id) IN
       IF i = 0
       THEN ret' = RetFalse /\ UNCHANGED oheap
       ELSE /\ LET popped == [oheap EXCEPT ![o].tickets = Pop(@, i)] IN
               oheap' = [popped EXCEPT
                           ![o].total_amount = calculate_total(o, popped, theap)]
            /\ ret' = RetTrue
    /\ UNCHANGED <<today, theap, repoVars>>

remove_ticket(o, ticket_id) ==
    /\ o \in ORefs
    /\ LET i == FirstMatch(oheap[o].tickets, ticket_id) IN
       IF oheap[o].status = "Confirmed" \/ i = 0
       THEN ret' = RetFalse /\ UNCHANGED oheap
       ELSE /\ LET popped == [oheap EXCEPT ![o].tickets = Pop(@, i)] IN
               oheap' = [popped EXCEPT
                           ![o].total_amount = calculate_total(o, popped, theap)]
            /\ ret' = RetTrue
    /\ UNCHANGED <<today, theap, repoVars>>

\* confirm_order without the payment-method check
confirm_order_unpaid(o) ==
    /\ o \in ORefs
    /\ IF oheap[o].tickets = <<>>
       THEN ret' = RetFalse /\ UNCHANGED oheap
       ELSE ret' = RetTrue /\ oheap' = [oheap EXCEPT ![o].status = "Confirmed"]
    /\ UNCHANGED <<today, theap, repoVars>>

\* Order.confirm_order
confirm_order(o) ==
    /\ o \in ORefs
    /\ IF oheap[o].tickets = <<>> \/ oheap[o].payment_method = None
       THEN ret' = RetFalse /\ UNCHANGED oheap
       ELSE ret' = RetTrue /\ oheap' = [oheap EXCEPT ![o].status = "Confirmed"]
    /\ UNCHANGED <<today, theap, repoVars>>

\* cancel_order refusing a ticket dated today as well
cancel_order_today(o) ==
    /\ o \in ORefs
    /\ LET tks == oheap[o].tickets IN
       IF \/ \E i \in DOMAIN tks : theap[tks[i]].is_used
          \/ \E i \in DOMAIN tks : theap[tks[i]].event_date <= today
       THEN ret' = RetFalse /\ UNCHANGED oheap
       ELSE ret' = RetTrue /\ oheap' = [oheap EXCEPT ![o].status = "Cancelled"]
    /\ UNCHANGED <<today, theap, repoVars>>

\* Order.cancel_order
cancel_order(o) ==
    /\ o \in ORefs
    /\ LET tks == oheap[o].tickets IN
       IF \/ \E i \in DOMAIN tks : theap[tks[i]].is_used
          \/ \E i \in DOMAIN tks : theap[tks[i]].event_date < today
       THEN ret' = RetFalse /\ UNCHANGED oheap
       ELSE ret' = RetTrue /\ oheap' = [oheap EXCEPT ![o].status = "Cancelled"]
    /\ UNCHANGED <<today, theap, repoVars>>

\* the calendar moves on: date.today() never goes back
NextDay ==
    /\ today < MaxDay
    /\ today' = today + 1
    /\ UNCHANGED <<theap, oheap, ret, repoVars>>

\* ------------------------------------------------------------ users
\* User.__init__ (admin_level 0 stands for an object that has no such field)
User(user_id, username) ==
    [class |-> "User", user_id |-> user_id, username |-> username,
     admin_level |-> 0, orders |-> <<>>]

\* User.__init__ followed by Admin.__init__
Admin(user_id, username, admin_level) ==
    [class |-> "Admin", user_id |-> user_id, username |-> username,
     admin_level |-> admin_level, orders |-> <<>>]

URefs == DOMAIN uheap

\* ------------------------------------------------------- the repository
\* an empty dict
EmptyMap == <<>>

\* mapping[key] = value
Put(mapping, key, value) ==
    [k \in DOMAIN mapping \cup {key} |-> IF k = key THEN value ELSE mapping[k]]

\* mapping.values()
Values(mapping) == {mapping[k] : k \in DOMAIN mapping}

\* the objects and mappings of a process, and the data directory, as one value
World ==
    [users |-> users, admins |-> admins, tickets |-> tickets, orders |-> orders,
     uheap |-> uheap, oheap |-> oheap, theap |-> theap, disk |-> disk]

\* the variables take the values of world w
Becomes(w) ==
    /\ users' = w.users
    /\ admins' = w.admins
    /\ tickets' = w.tickets
    /\ orders' = w.orders
    /\ uheap' = w.uheap
    /\ oheap' = w.oheap
    /\ theap' = w.theap
    /\ disk' = w.disk

\* the files in the order save_data writes and load_data reads them
FileOrder == <<"users", "admins", "tickets", "orders">>

Files == {FileOrder[i] : i \in DOMAIN FileOrder}

FilePos(f) == CHOOSE i \in DOMAIN FileOrder : FileOrder[i] = f

\* os.path.exists(path) is False
NoFile == [state |-> "absent", root |-> <<>>, u |-> <<>>, o |-> <<>>, t |-> <<>>]

\* a file that open(path, 'wb') truncated and pickle.dump did not complete
Truncated == [state |-> "corrupt", root |-> <<>>, u |-> <<>>, o |-> <<>>, t |-> <<>>]

\* the position of reference r among the references R, in ascending order
Rank(r, R) == Cardinality({x \in R : x <= r})

\* the reference of R at position i
Nth(R, i) == CHOOSE r \in R : Rank(r, R) = i

\* the Order objects the User objects U refer to
OrdersOf(U, uh) == UNION {Values(uh[u].orders) : u \in U}

\* the Ticket objects the Order objects O refer to
TicketsOf(O, oh) == UNION {Values(oh[o].tickets) : o \in O}

\* the Admin objects the Ticket objects T refer to
CreatorsOf(T, th) == {th[t].created_by : t \in T} \ {0}

\* the objects reached from the users U, the orders O and the tickets T
RECURSIVE Reach(_, _, _, _)
Reach(U, O, T, w) ==
    LET U2 == U \cup CreatorsOf(T, w.theap)
        O2 == O \cup OrdersOf(U2, w.uheap)
        T2 == T \cup TicketsOf(O2, w.oheap)
    IN IF U2 = U /\ O2 = O /\ T2 = T
       THEN [U |-> U, O |-> O, T |-> T]
       ELSE Reach(U2, O2, T2, w)

\* pickle.dump(mapping, f): the mapping with every object it reaches, each
\* object once; references become positions within the file.  class is
\* "User" for a mapping of users or admins, "Order" or "Ticket".
Pickle(mapping, class, w) ==
    LET r == Reach(IF class = "User" THEN Values(mapping) ELSE {},
                   IF class = "Order" THEN Values(mapping) ELSE {},
                   IF class = "Ticket" THEN Values(mapping) ELSE {}, w)
        U == r.U
        O == r.O
        T == r.T
        R == IF class = "User" THEN U ELSE IF class = "Order" THEN O ELSE T
    IN
    [state |-> "pickle",
     root |-> [k \in DOMAIN mapping |-> Rank(mapping[k], R)],
     u |-> [i \in 1..Cardinality(U) |->
              [w.uheap[Nth(U, i)] EXCEPT
                 !.orders = [j \in DOMAIN @ |-> Rank(@[j], O)]]],
     o |-> [i \in 1..Cardinality(O) |->
              [w.oheap[Nth(O, i)] EXCEPT
                 !.tickets = [j \in DOMAIN @ |-> Rank(@[j], T)]]],
     t |-> [i \in 1..Cardinality(T) |->
              [w.theap[Nth(T, i)] EXCEPT
                 !.created_by = IF @ = 0 THEN 0 ELSE Rank(@, U)]]]

\* the class of the values of the mapping kept in file f
ClassOf(f) ==
    IF f \in {"users", "admins"} THEN "User"
    ELSE IF f = "orders" THEN "Order" ELSE "Ticket"

\* how a call of save_data ends: fail = 0, all four files written; fail = i,
\* the write of file i raised, after truncating the file (trunc) or before
SaveOutcomes ==
    {[fail |-> 0, trunc |-> FALSE]}
      \cup {[fail |-> i, trunc |-> b] : i \in DOMAIN FileOrder, b \in BOOLEAN}

SaveOk == [fail |-> 0, trunc |-> FALSE]

\* all written, or the write of file i raised, in open() or in pickle.dump()
FailsAt(i) == {SaveOk, [fail |-> i, trunc |-> FALSE], [fail |-> i, trunc |-> TRUE]}

\* all written, or open() of orders.pkl raised
OrdersFileFails == {SaveOk, [fail |-> 4, trunc |-> FALSE]}

\* the outcomes explored: all written; the write of admins.pkl raised, in
\* open() or in pickle.dump()
Outcomes == {SaveOk, [fail |-> 2, trunc |-> FALSE], [fail |-> 2, trunc |-> TRUE]}

\* save_data rewriting users.pkl only
save_data_users_only(w, out) ==
    [w EXCEPT !.disk =
       [f \in Files |->
          IF f = "users" /\ out.fail # 1 THEN Pickle(w[f], ClassOf(f), w)
          ELSE w.disk[f]]]

\* save_data going on to the next file after a failed write
save_data_skipping(w, out) ==
    [w EXCEPT !.disk =
       [f \in Files |->
          IF FilePos(f) # out.fail THEN Pickle(w[f], ClassOf(f), w)
          ELSE IF out.trunc THEN Truncated
          ELSE w.disk[f]]]

\* BookingSystem.save_data: the world after the call
save_data(w, out) ==
    [w EXCEPT !.disk =
       [f \in Files |->
          IF out.fail = 0 \/ FilePos(f) < out.fail THEN Pickle(w[f], ClassOf(f), w)
          ELSE IF FilePos(f) = out.fail /\ out.trunc THEN Truncated
          ELSE w.disk[f]]]

\* pickle.load returning every Order as constructed (Pending, unpaid)
Unpickle_orders_reset(w, f) ==
    LET file == w.disk[f]
        uo == Len(w.uheap)
        oo == Len(w.oheap)
        to == Len(w.theap)
        off == IF ClassOf(f) = "User" THEN uo
               ELSE IF ClassOf(f) = "Order" THEN oo ELSE to
    IN
    [w EXCEPT
       ![f] = [k \in DOMAIN file.root |-> file.root[k] + off],
       !.uheap = @ \o [i \in DOMAIN file.u |->
                         [file.u[i] EXCEPT
                            !.orders = [j \in DOMAIN @ |-> @[j] + oo]]],
       !.oheap = @ \o [i \in DOMAIN file.o |->
                         [file.o[i] EXCEPT
                            !.status = "Pending",
                            !.payment_method = None,
                            !.tickets = [j \in DOMAIN @ |-> @[j] + to]]],
       !.theap = @ \o [i \in DOMAIN file.t |->
                         [file.t[i] EXCEPT
                            !.created_by = IF @ = 0 THEN 0 ELSE @ + uo]]]

\* pickle.load(f) of file f into the mapping of that name: fresh copies of
\* the file's objects
Unpickle(w, f) ==
    LET file == w.disk[f]
        uo == Len(w.uheap)
        oo == Len(w.oheap)
        to == Len(w.theap)
        off == IF ClassOf(f) = "User" THEN uo
               ELSE IF ClassOf(f) = "Order" THEN oo ELSE to
    IN
    [w EXCEPT
       ![f] = [k \in DOMAIN file.root |-> file.root[k] + off],
       !.uheap = @ \o [i \in DOMAIN file.u |->
                         [file.u[i] EXCEPT
                            !.orders = [j \in DOMAIN @ |-> @[j] + oo]]],
       !.oheap = @ \o [i \in DOMAIN file.o |->
                         [file.o[i] EXCEPT
                            !.tickets = [j \in DOMAIN @ |-> @[j] + to]]],
       !.theap = @ \o [i \in DOMAIN file.t |->
                         [file.t[i] EXCEPT
                            !.created_by = IF @ = 0 THEN 0 ELSE @ + uo]]]

\* create_admin looking the username up among the admins only
create_admin_in_admins_only(w, user_id, username, admin_level, out) ==
    IF username \in DOMAIN w.admins
    THEN [w |-> w, ret |-> ValueError]
    ELSE LET a == Len(w.uheap) + 1
             w1 == [w EXCEPT !.uheap = Append(@, Admin(user_id, username, admin_level)),
                            !.users = Put(@, username, a),
                            !.admins = Put(@, username, a)]
         IN [w |-> save_data(w1, out), ret |-> "Admin"]

\* BookingSystem.create_admin on world w: the world after the call and what
\* the call returned or raised
create_admin_in(w, user_id, username, admin_level, out) ==
    IF username \in DOMAIN w.users
    THEN [w |-> w, ret |-> ValueError]
    ELSE LET a == Len(w.uheap) + 1
             w1 == [w EXCEPT !.uheap = Append(@, Admin(user_id, username, admin_level)),
                            !.users = Put(@, username, a),
                            !.admins = Put(@, username, a)]
         IN [w |-> save_data(w1, out), ret |-> "Admin"]

\* BookingSystem.load_data on world w: the world after the call and whether
\* it returned True.  out is how the save_data of the default admin ends.
load_data(w, out) ==
    IF w.disk.users.state = "corrupt" THEN [w |-> w, ok |-> FALSE]
    ELSE
    LET w1 == IF w.disk.users.state = "pickle" THEN Unpickle(w, "users") ELSE w IN
    IF w1.disk.admins.state = "corrupt" THEN [w |-> w1, ok |-> FALSE]
    ELSE
    LET a == IF w1.disk.admins.state = "pickle"
             THEN [w |-> Unpickle(w1, "admins"), ret |-> RetNone]
             ELSE IF w1.admins = EmptyMap
             THEN create_admin_in(w1, "ADM-001", "admin", 3, out)
             ELSE [w |-> w1, ret |-> RetNone]
    IN
    IF a.ret = ValueError \/ a.w.disk.tickets.state = "corrupt"
    THEN [w |-> a.w, ok |-> FALSE]
    ELSE
    LET w3 == IF a.w.disk.tickets.state = "pickle"
              THEN Unpickle(a.w, "tickets") ELSE a.w
    IN
    IF w3.disk.orders.state = "corrupt" THEN [w |-> w3, ok |-> FALSE]
    ELSE [w |-> IF w3.disk.orders.state = "pickle"
                THEN Unpickle(w3, "orders") ELSE w3,
          ok |-> TRUE]

\* BookingSystem.__init__ in a new process
BookingSystem_init(out) ==
    /\ ~up
    /\ LET r == load_data(World, out) IN
       /\ Becomes(r.w)
       /\ ret' = IF r.ok THEN RetTrue ELSE RetFalse
    /\ up' = TRUE
    /\ UNCHANGED today

\* the process ends: its objects are gone, the files stay
Exit ==
    /\ up
    /\ up' = FALSE
    /\ users' = EmptyMap /\ admins' = EmptyMap
    /\ tickets' = EmptyMap /\ orders' = EmptyMap
    /\ uheap' = <<>> /\ oheap' = <<>> /\ theap' = <<>>
    /\ ret' = RetNone
    /\ UNCHANGED <<today, disk>>

\* BookingSystem.save_data: what the call returns, True after the fourth
\* dump, False from the except clause
save_data_returns(out) == IF out.fail = 0 THEN RetTrue ELSE RetFalse

\* BookingSystem.save_data called by the client
BookingSystem_save_data(out) ==
    /\ up
    /\ Becomes(save_data(World, out))
    /\ ret' = save_data_returns(out)
    /\ UNCHANGED <<today, up>>

\* BookingSystem.create_user
create_user(user_id, username, out) ==
    /\ up
    /\ IF username \in DOMAIN users
       THEN ret' = ValueError /\ UNCHANGED <<repoVars, theap, oheap>>
       ELSE /\ LET u == Len(uheap) + 1
                   w1 == [World EXCEPT !.uheap = Append(@, User(user_id, username)),
                                        !.users = Put(@, username, u)]
               IN Becomes(save_data(w1, out))
            /\ ret' = "User"
            /\ UNCHANGED up
    /\ UNCHANGED today

\* BookingSystem.create_admin
create_admin(user_id, username, admin_level, out) ==
    /\ up
    /\ LET r == create_admin_in(World, user_id, username, admin_level, out) IN
       Becomes(r.w) /\ ret' = r.ret
    /\ UNCHANGED <<today, up>>

\* register_ticket storing the ticket whether or not its id is taken
register_ticket_overwriting(t, out) ==
    /\ up
    /\ t \in TRefs
    /\ Becomes(save_data([World EXCEPT !.tickets = Put(@, theap[t].ticket_id, t)], out))
    /\ ret' = RetNone
    /\ UNCHANGED <<today, up>>

\* BookingSystem.register_ticket
register_ticket(t, out) ==
    /\ up
    /\ t \in TRefs
    /\ LET ticket_id == theap[t].ticket_id IN
       IF ticket_id \in DOMAIN tickets
       THEN ret' = ValueError /\ UNCHANGED <<repoVars, theap, oheap>>
       ELSE /\ Becomes(save_data([World EXCEPT !.tickets = Put(@, ticket_id, t)], out))
            /\ ret' = RetNone
            /\ UNCHANGED up
    /\ UNCHANGED today

\* BookingSystem.create_order
create_order(u, out) ==
    /\ up
    /\ u \in URefs
    /\ Cardinality(DOMAIN orders) < MaxOrders
    /\ Len(uheap[u].orders) < MaxOrders
    /\ LET order_id == OrderId(Cardinality(DOMAIN orders) + 1)
           o == Len(oheap) + 1
           order == [Order(order_id, today, "Pending", 0, None) EXCEPT
                       !.user_id = uheap[u].username]
           w1 == [World EXCEPT !.oheap = Append(@, order),
                                !.orders = Put(@, order_id, o),
                                !.uheap[u].orders = Append(@, o)]
       IN Becomes(save_data(w1, out))
    /\ ret' = "Order"
    /\ UNCHANGED <<today, up>>

\* update_order entering the order whether or not its id is registered
update_order_inserting(o, out) ==
    /\ up
    /\ o \in ORefs
    /\ Becomes(save_data([World EXCEPT !.orders = Put(@, oheap[o].order_id, o)], out))
    /\ ret' = RetNone
    /\ UNCHANGED <<today, up>>

\* update_order without the call of save_data
update_order_unsaved(o, out) ==
    /\ up
    /\ o \in ORefs
    /\ LET order_id == oheap[o].order_id IN
       IF order_id \notin DOMAIN orders
       THEN ret' = ValueError /\ UNCHANGED <<repoVars, theap, oheap>>
       ELSE /\ Becomes([World EXCEPT !.orders = Put(@, order_id, o)])
            /\ ret' = RetNone
            /\ UNCHANGED up
    /\ UNCHANGED today

\* BookingSystem.update_order
update_order(o, out) ==
    /\ up
    /\ o \in ORefs
    /\ LET order_id == oheap[o].order_id IN
       IF order_id \notin DOMAIN orders
       THEN ret' = ValueError /\ UNCHANGED <<repoVars, theap, oheap>>
       ELSE /\ Becomes(save_data([World EXCEPT !.orders = Put(@, order_id, o)], out))
            /\ ret' = RetNone
            /\ UNCHANGED up
    /\ UNCHANGED today

\* ------------------------------------------------- entities as values
\* the attribute values of Ticket object t of world w (the creator by name)
TicketValue(t, w) ==
    [w.theap[t] EXCEPT
       !.created_by = IF @ = 0 THEN None ELSE w.uheap[@].username]

\* the attribute values of Order object o, its tickets by value
OrderValue(o, w) ==
    [w.oheap[o] EXCEPT !.tickets = [j \in DOMAIN @ |-> TicketValue(@[j], w)]]

\* the attribute values of User object u, its orders by value
UserValue(u, w) ==
    [w.uheap[u] EXCEPT !.orders = [j \in DOMAIN @ |-> OrderValue(@[j], w)]]

\* a mapping with the values of its entities in place of the objects
EntityValues(mapping, class, w) ==
    [k \in DOMAIN mapping |->
       IF class = "User" THEN UserValue(mapping[k], w)
       ELSE IF class = "Order" THEN OrderValue(mapping[k], w)
       ELSE TicketValue(mapping[k], w)]

\* the in-memory mapping f, by value
Current(f) == EntityValues(World[f], ClassOf(f), World)

\* the mapping file f of data directory d holds, by value
StoredIn(d, f) ==
    EntityValues(d[f].root, ClassOf(f),
                 [uheap |-> d[f].u, oheap |-> d[f].o, theap |-> d[f].t])

\* the mapping file f holds, by value
Stored(f) == StoredIn(disk, f)

\* a new process over data directory d, before load_data
FreshWorld(d) ==
    [users |-> EmptyMap, admins |-> EmptyMap, tickets |-> EmptyMap,
     orders |-> EmptyMap, uheap |-> <<>>, oheap |-> <<>>, theap |-> <<>>,
     disk |-> d]

\* no BookingSystem: no process, an empty data directory
NoRepository ==
    /\ up = FALSE
    /\ uheap = <<>>
    /\ users = EmptyMap /\ admins = EmptyMap
    /\ tickets = EmptyMap /\ orders = EmptyMap
    /\ disk = [f \in Files |-> NoFile]

\* the stored total of order o is the sum over its current tickets
TotalIsSum(o) == oheap[o].total_amount = SumPrices(oheap[o].tickets, theap)

\* ------------------------------------------- an order and its cached total
\* Order(order_id, date.today(), payment_method=PaymentMethod.CREDIT_CARD)
InitTotal ==
    /\ today = 0
    /\ NoRepository
    /\ theap = <<>>
    /\ oheap = <<Order(OrderId(1), today, "Pending", 0, "Credit Card")>>
    /\ ret = RetNone

NextTotal ==
    \/ \E p \in CtorPrices : SingleRaceTicket_init("TKT-001", p, today, "Standard")
    \/ \E t \in TRefs, p \in SetPrices : set_price(t, p)
    \/ \E t \in TRefs, c \in {"Standard", "Premium"} : set_race_category(t, c)
    \/ \E o \in ORefs, a \in Totals : set_total_amount(o, a)
    \/ \E o \in ORefs, t \in TRefs : add_ticket(o, t)
    \/ \E o \in ORefs, id \in TicketIds : remove_ticket(o, id)
    \/ \E o \in ORefs : confirm_order(o)
    \/ \E o \in ORefs : cancel_order(o)

SpecTotal == InitTotal /\ [][NextTotal]_vars

\* C1 as claimed: in every reachable state the stored total_amount of an
\* order equals the sum of calculate_price() over its current tickets, also
\* after set_total_amount and after a setter of a ticket the order holds.
C1_TotalAlwaysSum == \A o \in ORefs : TotalIsSum(o)

\* a step of set_total_amount or of a ticket setter
SetterStep ==
    \/ \E o \in ORefs, a \in Totals : set_total_amount(o, a)
    \/ \E t \in TRefs, p \in SetPrices : set_price(t, p)
    \/ \E t \in TRefs, c \in RaceCategory : set_race_category(t, c)

\* C1 amended: add_ticket, remove_ticket, confirm_order and cancel_order keep
\* total_amount equal to the sum of calculate_price() over the order's
\* tickets; only set_total_amount and the ticket setters can part them.
C1_TotalKeptByOrderOps ==
    [][\A o \in ORefs : (TotalIsSum(o) /\ ~SetterStep) => TotalIsSum(o)']_vars

\* a Confirmed order of two tickets whose total is their sum
C1_Witness ==
    \E o \in ORefs :
       /\ oheap[o].status = "Confirmed"
       /\ Len(oheap[o].tickets) = 2
       /\ oheap[o].total_amount > 0
       /\ TotalIsSum(o)

\* ---------------------------------------- add_ticket and remove_ticket alone
\* Order(order_id, date.today(), status, total_amount): every status and a
\* total_amount of the caller's choice
InitAddRemove ==
    /\ today = 0
    /\ NoRepository
    /\ theap = <<>>
    /\ \E st \in OrderStatus, a \in CtorTotals :
          oheap = <<Order(OrderId(1), today, st, a, None)>>
    /\ ret = RetNone

NextAddRemove ==
    \/ \E id \in TicketIds, p \in CtorPrices, c \in {"Premium", "Economy"} :
          SingleRaceTicket_init(id, p, today, c)
    \/ \E id \in TicketIds : SeasonTicket_init(id, 200, today, FiveRaces)
    \/ \E o \in ORefs, t \in TRefs : add_ticket(o, t)
    \/ \E o \in ORefs, id \in TicketIds : remove_ticket(o, id)

SpecAddRemove == InitAddRemove /\ [][NextAddRemove]_vars

C7_TotalIsSumUnlessConfirmed ==
    \A o \in ORefs : oheap[o].status # "Confirmed" => TotalIsSum(o)

\* C7 amended: for an order that is not Confirmed, total_amount equals
\* calculate_total() after a sequence of add_ticket and remove_ticket calls
\* if it did when the sequence began (as for an order constructed with the
\* default total_amount 0.0) or if a call of the sequence succeeded.
C7_AddRemoveKeepTotal ==
    [][\A o \in ORefs :
         (oheap[o].status # "Confirmed" /\ (TotalIsSum(o) \/ oheap'[o] # oheap[o]))
           => TotalIsSum(o)']_vars

\* an order constructed with total_amount 500 whose total is the sum again
\* after a successful remove_ticket
C7_Witness ==
    /\ ret = RetTrue
    /\ \E o \in ORefs :
          /\ oheap[o].status = "Pending"
          /\ Len(oheap[o].tickets) = 1
          /\ oheap[o].total_amount \notin CtorTotals
          /\ TotalIsSum(o)

\* ------------------------------------------------ the order state machine
\* Order(order_id, date.today()), as create_order constructs it
InitOrder ==
    /\ today = 0
    /\ NoRepository
    /\ theap = <<>>
    /\ oheap = <<Order(OrderId(1), today, "Pending", 0, None)>>
    /\ ret = RetNone

NextOrder ==
    \/ \E d \in EventDays, p \in CtorPrices :
          SingleRaceTicket_init("TKT-001", p, d, "Standard")
    \/ \E t \in TRefs, b \in BOOLEAN : set_used(t, b)
    \/ \E o \in ORefs, m \in PaymentInputs : set_payment_method(o, m)
    \/ \E o \in ORefs, t \in TRefs : add_ticket(o, t)
    \/ \E o \in ORefs, id \in TicketIds : remove_ticket(o, id)
    \/ \E o \in ORefs : confirm_order(o)
    \/ \E o \in ORefs : cancel_order(o)
    \/ NextDay

SpecOrder == InitOrder /\ [][NextOrder]_vars

\* C2: Cancelled is terminal: no call of add_ticket, remove_ticket,
\* set_payment_method, confirm_order or cancel_order changes the status of a
\* Cancelled order.
C2_CancelledIsTerminal ==
    [][\A o \in ORefs :
         oheap[o].status = "Cancelled" => oheap'[o].status = "Cancelled"]_vars

\* C3: confirm_order returns True and sets the status to Confirmed exactly if
\* the ticket list is not empty and a payment method is set, whatever the
\* status was (Confirmed included); otherwise it returns False and leaves
\* status, ticket list, total and payment method as they were.
C3_ConfirmOrder ==
    [][\A o \in ORefs :
         confirm_order(o) =>
           /\ theap' = theap
           /\ IF oheap[o].tickets # <<>> /\ oheap[o].payment_method \in PaymentMethod
              THEN /\ ret' = RetTrue
                   /\ oheap'[o].status = "Confirmed"
                   /\ oheap'[o].tickets = oheap[o].tickets
                   /\ oheap'[o].total_amount = oheap[o].total_amount
                   /\ oheap'[o].payment_method = oheap[o].payment_method
              ELSE ret' = RetFalse /\ oheap' = oheap]_vars

\* confirm_order has succeeded on an order with tickets and a payment method
C3_Witness ==
    /\ ret = RetTrue
    /\ \E o \in ORefs :
          /\ oheap[o].status = "Confirmed"
          /\ oheap[o].tickets # <<>>
          /\ oheap[o].payment_method = "Credit Card"

\* C4: cancel_order returns True and sets the status to Cancelled exactly if
\* no ticket of the order is used and none is dated strictly before today,
\* whatever the status was; otherwise it returns False and changes nothing.
C4_CancelOrder ==
    [][\A o \in ORefs :
         cancel_order(o) =>
           LET tks == oheap[o].tickets
               blocked == \E i \in DOMAIN tks :
                             \/ theap[tks[i]].is_used
                             \/ theap[tks[i]].event_date < today
           IN
           /\ theap' = theap
           /\ IF blocked
              THEN ret' = RetFalse /\ oheap' = oheap
              ELSE ret' = RetTrue
                   /\ oheap' = [oheap EXCEPT ![o].status = "Cancelled"]]_vars

\* an order holding a ticket dated today has been cancelled
C4_Witness ==
    /\ ret = RetTrue
    /\ \E o \in ORefs :
          /\ oheap[o].status = "Cancelled"
          /\ \E i \in DOMAIN oheap[o].tickets :
                theap[oheap[o].tickets[i]].event_date = today

\* C5: add_ticket on a Confirmed order raises and leaves ticket list, total
\* and status as they were; on a Pending or Cancelled order it appends the
\* ticket after the existing ones and sets total_amount to the sum of
\* calculate_price() over the tickets now in the list.
C5_AddTicket ==
    [][\A o \in ORefs, t \in TRefs :
         add_ticket(o, t) =>
           /\ theap' = theap
           /\ IF oheap[o].status = "Confirmed"
              THEN ret' = ValueError /\ oheap' = oheap
              ELSE /\ oheap'[o].tickets = oheap[o].tickets \o <<t>>
                   /\ oheap'[o].total_amount = SumPrices(oheap'[o].tickets, theap')
                   /\ oheap'[o].status = oheap[o].status]_vars

\* add_ticket has been refused by a Confirmed order that holds tickets
C5_Witness ==
    /\ ret = ValueError
    /\ \E o \in ORefs :
          /\ oheap[o].status = "Confirmed"
          /\ oheap[o].tickets # <<>>
          /\ TotalIsSum(o)

\* C25: an order that create_order made (Pending, no tickets, no payment
\* method) and that is Confirmed after any sequence of add_ticket,
\* remove_ticket, set_payment_method, confirm_order and cancel_order has a
\* non-empty ticket list.
C25_ConfirmedHasTickets ==
    \A o \in ORefs : oheap[o].status = "Confirmed" => oheap[o].tickets # <<>>

\* A Confirmed, paid order that holds a ticket, after a refused operation.
C25_Witness ==
    /\ ret = RetFalse
    /\ \E o \in ORefs :
          /\ oheap[o].status = "Confirmed"
          /\ Len(oheap[o].tickets) = 1
          /\ oheap[o].payment_method # None

\* --------------------------------------------------------- the repository
\* before the first run of the program: no process, no file
Init ==
    /\ today = 0
    /\ NoRepository
    /\ theap = <<>>
    /\ oheap = <<>>
    /\ ret = RetNone

Next ==
    \/ \E out \in Outcomes : BookingSystem_init(out)
    \/ Exit
    \/ \E n \in Usernames, out \in Outcomes : create_user("USR-001", n, out)
    \/ \E n \in Usernames, out \in Outcomes : create_admin("ADM-002", n, 2, out)
    \/ \E u \in Values(users), out \in Outcomes : create_order(u, out)

Spec == Init /\ [][Next]_vars

\* the username is held by a plain user / by an admin
HeldByUser(n) == n \in DOMAIN users /\ uheap[users[n]].class = "User"

HeldByAdmin(n) == n \in DOMAIN users /\ uheap[users[n]].class = "Admin"

\* C8: create_user and create_admin called with a username that is a key of
\* the user mapping, held by a plain user or by an admin, raise ValueError and
\* leave the four mappings, every object and the files as they were.
C8_AlreadyExists ==
    [][\A n \in Usernames, out \in Outcomes :
         ( /\ n \in DOMAIN users
           /\ \/ create_user("USR-001", n, out)
              \/ create_admin("ADM-002", n, 2, out) )
         => /\ ret' = ValueError
            /\ UNCHANGED <<users, admins, tickets, orders, uheap, oheap, theap, disk>>]_vars

\* a creation was refused in a process that holds a plain user and an admin
\* besides the default one, and an order
C8_Witness ==
    /\ up
    /\ ret = ValueError
    /\ HeldByUser("john_doe")
    /\ HeldByAdmin("admin")
    /\ DOMAIN orders # {}
    /\ disk.users.state = "pickle"

\* C9: once the BookingSystem is constructed the admin mapping holds at
\* least one admin, whatever files earlier runs left behind.
C9_NeverAdminless == up => DOMAIN admins # {}

\* C10: every id create_order returns is greater than the id of every order
\* issued before it, so no two orders the program holds bear the same id.
C10_IdsIncrease ==
    [][\A u \in URefs, out \in Outcomes :
         create_order(u, out)
         => \A o \in ORefs :
              oheap[o].order_id[2] < oheap'[Len(oheap')].order_id[2]]_vars

\* ----------------------------------------------------- tickets on their own
\* an Admin object constructed by a client, no BookingSystem, no ticket
InitTickets ==
    /\ today = 0
    /\ up = FALSE
    /\ uheap = <<Admin("ADM-001", "admin", 3)>>
    /\ users = EmptyMap /\ admins = EmptyMap
    /\ tickets = EmptyMap /\ orders = EmptyMap
    /\ disk = [f \in Files |-> NoFile]
    /\ theap = <<>>
    /\ oheap = <<>>
    /\ ret = RetNone

NextSingleRace ==
    \/ \E p \in TicketPrices, c \in Categories :
          SingleRaceTicket_init("TKT-001", p, 1, c)
    \/ \E ty \in TicketTypes, p \in TicketPrices, n \in RaceNames, c \in Categories :
          create_ticket(1, ty, "TKT-002", p, 1, n, c, FiveRaces)
    \/ \E t \in TRefs, p \in SetPrices : set_price(t, p)
    \/ \E t \in TRefs, c \in Categories : set_race_category(t, c)
    \/ \E t \in TRefs : Ticket_calculate_price(t)

SpecSingleRace == InitTickets /\ [][NextSingleRace]_vars

\* C16: every ticket has a base price of at least 0 in every reachable
\* state, whichever constructor or setter produced it.
C16_PriceNeverNegative == \A t \in TRefs : theap[t].price >= 0

\* C17: every SingleRaceTicket that exists has a category among Premium,
\* Standard and Economy.
C17_CategoryRecognized ==
    \A t \in TRefs :
      theap[t].kind = "SingleRace" => theap[t].race_category \in RaceCategory

\* C19: calculate_price() of a SingleRaceTicket returns base*1.2 for Premium,
\* base for Standard and base*0.9 for Economy, computed from the current
\* price and category, and changes no attribute of any object.
C19_SingleRacePrice ==
    [][\A t \in TRefs :
         ( /\ Ticket_calculate_price(t)
           /\ theap[t].kind = "SingleRace"
           /\ theap[t].race_category \in RaceCategory )
         => /\ ret' = ToString(
                  CASE theap[t].race_category = "Premium" ->
                         (theap[t].price * 120) \div 100
                    [] theap[t].race_category = "Standard" -> theap[t].price
                    [] theap[t].race_category = "Economy" ->
                         (theap[t].price * 90) \div 100)
            /\ UNCHANGED <<theap, oheap, uheap>>]_vars

\* calculate_price() returned the Economy price of a ticket whose price was
\* set to 200 after construction
C19_Witness ==
    /\ ret = "180"
    /\ \E t \in TRefs :
         /\ theap[t].kind = "SingleRace"
         /\ theap[t].race_category = "Economy"
         /\ theap[t].price = 200

NextSeason ==
    \/ \E p \in CtorPrices : SeasonTicket_init("TKT-001", p, 1, RaceList(4))
    \/ \E p \in CtorPrices :
          create_ticket(1, "Season", "TKT-002", p, 1, "", None, RaceList(4))
    \/ \E t \in TRefs, n \in RaceCounts : set_included_races(t, RaceList(n))
    \/ \E t \in TRefs : Ticket_calculate_price(t)

SpecSeason == InitTickets /\ [][NextSeason]_vars

\* the price of a season ticket of base price `price` with n races
TierPrice(price, n) ==
    CASE n >= 15 -> (price * 70) \div 100
      [] n \in 10..14 -> (price * 80) \div 100
      [] n \in 5..9 -> (price * 90) \div 100
      [] n < 5 -> price

\* C18: calculate_price() of a SeasonTicket returns base*0.7 for 15 or more
\* included races, base*0.8 for 10..14, base*0.9 for 5..9 and base below 5,
\* the count being the length of the list the ticket holds when called.
C18_SeasonTiers ==
    [][\A t \in TRefs :
         (Ticket_calculate_price(t) /\ theap[t].kind = "Season")
         => /\ ret' = ToString(TierPrice(theap[t].price,
                                         Len(theap[t].included_races)))
            /\ UNCHANGED theap]_vars

\* a ticket constructed with 4 races was given 15 and then priced at 70%
C18_Witness ==
    /\ ret = "70"
    /\ \E t \in TRefs :
         /\ theap[t].kind = "Season"
         /\ Len(theap[t].included_races) = 15
         /\ theap[t].price = 100

\* ------------------------------------------------ users and admins only
NextUsers ==
    \/ \E out \in SaveOutcomes : BookingSystem_init(out)
    \/ Exit
    \/ \E n \in Usernames, out \in SaveOutcomes : create_user("USR-001", n, out)
    \/ \E n \in Usernames, out \in SaveOutcomes : create_admin("ADM-002", n, 2, out)

SpecUsers == Init /\ [][NextUsers]_vars

\* C20: every username that is a key of the admin mapping is a key of the
\* user mapping, in every state, reloads from the program's files included.
C20_AdminsAreUsers == DOMAIN admins \subseteq DOMAIN users

\* --------------------------------------------------- registering tickets
NextRegister ==
    \/ \E out \in FailsAt(3) : BookingSystem_init(out)
    \/ Exit
    \/ \E id \in TicketIds, p \in CtorPrices :
          up /\ SingleRaceTicket_init(id, p, 1, "Standard")
    \/ \E t \in TRefs, out \in FailsAt(3) : register_ticket(t, out)

SpecRegister == Init /\ [][NextRegister]_vars

\* C14: register_ticket raises ValueError when the ticket's id is already a
\* key of the ticket mapping and then leaves the mappings, the registered
\* ticket and the files as they were; otherwise it enters the ticket under
\* its id, changes no other entry of the four mappings, and calls save_data.
C14_RegisterTicket ==
    [][\A t \in TRefs, out \in FailsAt(3) :
         register_ticket(t, out)
         => IF theap[t].ticket_id \in DOMAIN tickets
            THEN /\ ret' = ValueError
                 /\ UNCHANGED <<users, admins, tickets, orders,
                                uheap, oheap, theap, disk>>
            ELSE /\ ret' = RetNone
                 /\ DOMAIN tickets' = DOMAIN tickets \cup {theap[t].ticket_id}
                 /\ tickets'[theap[t].ticket_id] = t
                 /\ \A k \in DOMAIN tickets : tickets'[k] = tickets[k]
                 /\ UNCHANGED <<users, admins, orders, uheap, oheap, theap>>
                 /\ disk' = save_data([World' EXCEPT !.disk = disk], out).disk]_vars

\* a second ticket object bearing a registered id was refused, the first one
\* being registered and on file
C14_Witness ==
    /\ up
    /\ ret = ValueError
    /\ \E t1, t2 \in TRefs :
         /\ t1 # t2
         /\ theap[t1].ticket_id = theap[t2].ticket_id
         /\ theap[t1].price # theap[t2].price
         /\ theap[t1].ticket_id \in DOMAIN tickets
         /\ tickets[theap[t1].ticket_id] = t1
         /\ disk.tickets.state = "pickle"
         /\ theap[t1].ticket_id \in DOMAIN disk.tickets.root

\* ------------------------------------------------------ updating orders
NextUpdate ==
    \/ \E out \in OrdersFileFails : BookingSystem_init(out)
    \/ up /\ Order_init(OrderId(MaxOrders))
    \/ \E u \in Values(users), out \in OrdersFileFails : create_order(u, out)
    \/ \E o \in ORefs : cancel_order(o)
    \/ \E o \in ORefs, out \in OrdersFileFails : update_order(o, out)

SpecUpdate == Init /\ [][NextUpdate]_vars

\* C15: update_order raises ValueError when the order's id is not a key of
\* the order mapping and then leaves the mappings, the objects and the files
\* as they were; otherwise it puts the given order under that id, adds no
\* key, changes nothing else in the four mappings, and calls save_data.
C15_UpdateOrder ==
    [][\A o \in ORefs, out \in OrdersFileFails :
         update_order(o, out)
         => IF oheap[o].order_id \notin DOMAIN orders
            THEN /\ ret' = ValueError
                 /\ UNCHANGED <<users, admins, tickets, orders,
                                uheap, oheap, theap, disk>>
            ELSE /\ ret' = RetNone
                 /\ DOMAIN orders' = DOMAIN orders
                 /\ orders'[oheap[o].order_id] = o
                 /\ \A k \in DOMAIN orders \ {oheap[o].order_id} :
                      orders'[k] = orders[k]
                 /\ UNCHANGED <<users, admins, tickets, uheap, oheap, theap>>
                 /\ disk' = save_data([World' EXCEPT !.disk = disk], out).disk]_vars

\* an Order the client constructed, whose id is not registered, was refused
\* by a repository that holds other orders
C15_Witness ==
    /\ up
    /\ ret = ValueError
    /\ DOMAIN orders # {}
    /\ \E o \in ORefs : oheap[o].order_id \notin DOMAIN orders

\* ------------------------------------------------------- orders on file
\* the order registered as ORD-1, if any
FirstOrder == {orders[k] : k \in DOMAIN orders \cap {OrderId(1)}}

NextPersist ==
    \/ \E out \in OrdersFileFails : BookingSystem_init(out)
    \/ up /\ SingleRaceTicket_init("TKT-001", 100, 1, "Standard")
    \/ \E u \in Values(users), out \in OrdersFileFails : create_order(u, out)
    \/ \E o \in FirstOrder : add_ticket(o, 1)
    \/ \E o \in FirstOrder : remove_ticket(o, "TKT-001")
    \/ \E o \in FirstOrder : cancel_order(o)
    \/ \E o \in Values(orders), out \in OrdersFileFails : update_order(o, out)

SpecPersist == Init /\ [][NextPersist]_vars

\* C12: whenever add_ticket, remove_ticket, confirm_order or cancel_order
\* changes the ticket list or the status of a registered order, orders.pkl
\* holds the order with its new ticket list and status once the call returns.
C12_PersistedOnChange ==
    [][\A o \in Values(orders) :
         ( /\ o \in DOMAIN oheap'
           /\ \/ oheap'[o].tickets # oheap[o].tickets
              \/ oheap'[o].status # oheap[o].status )
         => /\ disk'.orders.state = "pickle"
            /\ oheap[o].order_id \in DOMAIN disk'.orders.root
            /\ StoredIn(disk', "orders")[oheap[o].order_id] = OrderValue(o, World')]_vars

\* C12 (as the code has it): when update_order is called with a registered
\* order and its snapshot succeeds, orders.pkl holds every registered order
\* with its current ticket list and status.
C12_PersistedByUpdate ==
    [][\A o \in ORefs :
         (update_order(o, SaveOk) /\ oheap[o].order_id \in DOMAIN orders)
         => /\ disk'.orders.state = "pickle"
            /\ StoredIn(disk', "orders") = EntityValues(orders', "Order", World')]_vars

\* a registered order that was given a ticket and cancelled is on file as it
\* is in memory
C12_Witness ==
    /\ up
    /\ ret = RetNone
    /\ disk.orders.state = "pickle"
    /\ Stored("orders") = Current("orders")
    /\ \E k \in DOMAIN orders :
         /\ oheap[orders[k]].status = "Cancelled"
         /\ oheap[orders[k]].tickets # <<>>

\* ------------------------------------------------- failing snapshots
\* one run of the program over an empty data directory
NextSnapshot ==
    \/ \E out \in SaveOutcomes : BookingSystem_init(out)
    \/ \E n \in Usernames, out \in SaveOutcomes : create_user("USR-001", n, out)
    \/ \E n \in Usernames, out \in SaveOutcomes : create_admin("ADM-002", n, 2, out)
    \/ \E out \in SaveOutcomes : BookingSystem_save_data(out)

SpecSnapshot == Init /\ [][NextSnapshot]_vars

\* the files after a snapshot with outcome out: those before the failing one
\* hold the mappings as they are in memory after the call, the failing one is
\* as it was or cut short, those after it are as they were
PartlyWritten(out) ==
    \A f \in Files :
       IF out.fail = 0 \/ FilePos(f) < out.fail
       THEN /\ disk'[f].state = "pickle"
            /\ StoredIn(disk', f) = EntityValues(World'[f], ClassOf(f), World')
       ELSE IF FilePos(f) = out.fail
       THEN disk'[f] \in {disk[f], Truncated}
       ELSE disk'[f] = disk[f]

\* C21: save_data writes users, admins, tickets, orders in that order; when
\* the write of one fails, the later files are left as they were, the earlier
\* ones hold the new content, the call returns False (True when all four are
\* written) and the in-memory mappings stay as they are: create_user of a new
\* username still returns the User and the User is in the user mapping.
C21_PartialSnapshot ==
    [][\A out \in SaveOutcomes :
         /\ BookingSystem_save_data(out)
            => /\ PartlyWritten(out)
               /\ ret' = (IF out.fail = 0 THEN RetTrue ELSE RetFalse)
               /\ <<users, admins, tickets, orders>>' = <<users, admins, tickets, orders>>
               /\ <<uheap, oheap, theap>>' = <<uheap, oheap, theap>>
         /\ \A n \in Usernames \ DOMAIN users :
              create_user("USR-001", n, out)
              => /\ PartlyWritten(out)
                 /\ ret' = "User"
                 /\ DOMAIN users' = DOMAIN users \cup {n}
                 /\ uheap'[users'[n]] = User("USR-001", n)
                 /\ \A k \in DOMAIN users : users'[k] = users[k]
                 /\ <<admins, tickets, orders>>' = <<admins, tickets, orders>>]_vars

\* create_user returned john_doe although the snapshot failed at admins.pkl:
\* users.pkl holds john_doe, admins.pkl is cut short, tickets.pkl was never
\* written
C21_Witness ==
    /\ up
    /\ ret = "User"
    /\ "john_doe" \in DOMAIN users
    /\ disk.users.state = "pickle"
    /\ Stored("users") = Current("users")
    /\ disk.admins = Truncated
    /\ disk.tickets = NoFile

\* ------------------------------------------------- snapshots and reloads
\* the User object registered as john_doe, if any
Customer == {users[n] : n \in DOMAIN users \cap {"john_doe"}}

NextStore ==
    \/ BookingSystem_init(SaveOk)
    \/ create_user("USR-001", "john_doe", SaveOk)
    \/ create_admin("ADM-002", "john_doe", 2, SaveOk)
    \/ up /\ SingleRaceTicket_init("TKT-001", 100, 1, "Premium")
    \/ \E t \in TRefs : register_ticket(t, SaveOk)
    \/ \E u \in Customer : create_order(u, SaveOk)
    \/ \E o \in FirstOrder, t \in Values(tickets) : add_ticket(o, t)
    \/ \E o \in FirstOrder : set_payment_method(o, "Credit Card")
    \/ \E o \in FirstOrder : confirm_order(o)
    \/ \E t \in Values(tickets) : set_used(t, TRUE)
    \/ \E o \in Values(orders) : update_order(o, SaveOk)

SpecStore == Init /\ [][NextStore]_vars

\* a call of one of the five mutating operations whose save_data wrote all
\* four files
SnapshotTaken ==
    /\ ret' # ValueError
    /\ \/ create_user("USR-001", "john_doe", SaveOk)
       \/ create_admin("ADM-002", "john_doe", 2, SaveOk)
       \/ \E t \in TRefs : register_ticket(t, SaveOk)
       \/ \E u \in URefs : create_order(u, SaveOk)
       \/ \E o \in ORefs : update_order(o, SaveOk)

\* C11: when create_user, create_admin, register_ticket, create_order or
\* update_order succeeds and its snapshot succeeds, each of the four files
\* holds the mapping of its name as it is in memory when the call returns.
C11_SnapshotEqualsMemory ==
    [][SnapshotTaken
       => \A f \in Files :
            /\ disk'[f].state = "pickle"
            /\ StoredIn(disk', f) = EntityValues(World'[f], ClassOf(f), World')]_vars

\* the four files hold what is in memory: a user beside the default admin,
\* a used ticket, a confirmed order with that ticket
C11_Witness ==
    /\ up
    /\ ret = RetNone
    /\ \A f \in Files : disk[f].state = "pickle" /\ Stored(f) = Current(f)
    /\ "john_doe" \in DOMAIN users
    /\ \E k \in DOMAIN orders :
         /\ oheap[orders[k]].status = "Confirmed"
         /\ \E j \in DOMAIN oheap[orders[k]].tickets :
              theap[oheap[orders[k]].tickets[j]].is_used

\* C13: after a snapshot that succeeded, load_data in a new process over the
\* same files succeeds and yields four mappings with the same keys and, for
\* every entity, the same attribute values as the mappings held when saved.
C13_RoundTrip ==
    [][SnapshotTaken
       => LET r == load_data(FreshWorld(disk'), SaveOk) IN
          /\ r.ok
          /\ \A f \in Files :
               /\ DOMAIN r.w[f] = DOMAIN World'[f]
               /\ EntityValues(r.w[f], ClassOf(f), r.w)
                    = EntityValues(World'[f], ClassOf(f), World')]_vars

\* a snapshot was taken of two users, a used ticket and a confirmed, paid
\* order holding it
C13_Witness ==
    /\ up
    /\ ret = RetNone
    /\ Cardinality(DOMAIN users) = 2
    /\ DOMAIN tickets # {}
    /\ \E k \in DOMAIN orders :
         /\ disk.orders.state = "pickle"
         /\ k \in DOMAIN disk.orders.root
         /\ Stored("orders")[k].status = "Confirmed"
         /\ Stored("orders")[k].payment_method = "Credit Card"
         /\ Stored("orders")[k].tickets # <<>>
         /\ Stored("orders")[k].tickets[1].is_used

\* ------------------------------------------------- entities after a reload
\* runs of the program whose snapshots all succeed: a customer, a registered
\* ticket, the customer's orders holding registered tickets
NextReload ==
    \/ BookingSystem_init(SaveOk)
    \/ Exit
    \/ create_user("USR-001", "john_doe", SaveOk)
    \/ up /\ SingleRaceTicket_init("TKT-001", 100, 1, "Premium")
    \/ \E t \in TRefs : register_ticket(t, SaveOk)
    \/ \E u \in Customer : create_order(u, SaveOk)
    \/ \E o \in Values(orders), t \in Values(tickets) : add_ticket(o, t)
    \/ \E t \in Values(tickets) : set_used(t, TRUE)
    \/ \E o \in Values(orders) : cancel_order(o)
    \/ \E o \in Values(orders) : update_order(o, SaveOk)

SpecReload == Init /\ [][NextReload]_vars

\* C22: in a running repository every order in the history of a registered
\* user is the very object that the order mapping holds under the order's id.
C22_UserOrderLink ==
    up => \A n \in DOMAIN users :
             \A j \in DOMAIN uheap[users[n]].orders :
                LET o == uheap[users[n]].orders[j] IN
                /\ oheap[o].order_id \in DOMAIN orders
                /\ orders[oheap[o].order_id] = o

\* C23: a registered ticket that was added to a registered order is one
\* object: once set_used(True) was called on the repository's ticket of some
\* id, cancel_order of a registered order that holds the ticket of that id
\* is refused.
C23_SharedTicket ==
    [][\A o \in Values(orders) :
         (/\ cancel_order(o)
          /\ \E j \in DOMAIN oheap[o].tickets :
                LET id == theap[oheap[o].tickets[j]].ticket_id IN
                id \in DOMAIN tickets /\ theap[tickets[id]].is_used)
         => ret' = RetFalse]_vars

\* the four files hold exactly the four mappings of the running program, as
\* after a snapshot that wrote them all
FullSnapshot ==
    /\ up
    /\ \A f \in Files : disk[f].state = "pickle" /\ Stored(f) = Current(f)

\* users.pkl can be loaded and holds a user named n
OnFile(n) == disk.users.state = "pickle" /\ n \in DOMAIN disk.users.root

\* C24: a user that is in users.pkl when the four files hold a complete
\* snapshot of the running program is still in users.pkl after the next
\* step, whatever it is: a snapshot that fails or is partial, the end of the
\* process, a construction of the repository.
C24_NeverDeleted ==
    [][\A n \in Usernames : (FullSnapshot /\ OnFile(n)) => OnFile(n)']_vars

====
